---- MODULE Spec2Model ----
(***************************************************************************)
(* Model of the pqt code generators.                                       *)
(*                                                                         *)
(*   pqtsql.Generator   (src/pqtsql/generator.go, lines 1-300)             *)
(*   gogen.Generator    (src/internal/gogen/gen_general.go, lines 1-432)   *)
(*   pqtgogen.Generator (src/internal/gogen/gen_general.go, lines 433-622) *)
(*                                                                         *)
(* Text is modelled line by line: the SQL buffer is a sequence of records, *)
(* one per emitted line or statement, each carrying what the generator     *)
(* decided for it (its kind, the object it renders, its trailing comma,    *)
(* its IF NOT EXISTS guard, its WHERE clause).                             *)
(***************************************************************************)
EXTENDS Integers, Sequences, FiniteSets, TLC

VARIABLES
    schema,     \* the *pqt.Schema handed to the SQL generator (heap included)
    gVersion,   \* pqtsql.Generator.Version, in tenths (9.5 is 95)
    ret,        \* bytes returned by the last Generate (<<>> is nil)
    err,        \* error returned by the last Generate / GenerateTo
    w,          \* everything the io.Writer given to GenerateTo has received
    passes,     \* number of generate passes run so far
    tbl,        \* the *pqt.Table whose entity the source generator emits
    producer,   \* the goroutine of entityPropertiesGenerator: where it is
    fields,     \* the channel `fields`: the value being handed over, closed
    consumer,   \* Entity: where its range loop over the channel is
    prop,       \* the field the range loop of Entity holds, if any
    printer,    \* gogen.Generator.Printer: what was printed, and its Err
    goErr,      \* what pqtgogen's generate returned
    heap,       \* the *Criteria nodes allocated so far, by address
    calls,      \* the Operand / And / Or calls made so far, with what each returned
    gImports,   \* pqtgogen.Generator.Imports
    impTables,  \* the tables of the schema whose import block is generated
    importBlock,\* the import block printed, <<>> before it is
    iter,       \* the generated iterator: its cols field
    rows,       \* the Rows under the iterator: how often it was asked, what it said
    itRet       \* what the last call on the iterator returned

sqlVars == <<schema, gVersion, ret, err, w, passes>>
goVars == <<tbl, producer, fields, consumer, prop, printer, goErr>>
critVars == <<heap, calls>>
impVars == <<gImports, impTables, importBlock>>
iterVars == <<iter, rows, itRet>>
libVars == <<critVars, impVars, iterVars>>
vars == <<sqlVars, goVars, libVars>>

-----------------------------------------------------------------------------
(* Bounds of the model.                                                    *)

\* Largest number of elements of a schema: functions, tables, columns,
\* constraints, relationships and spare slots of a Constraints backing array.
MaxItems == 4
\* Longest column, constraint or relationship list of one table, and the
\* longest function or table list of one schema.
MaxList == 2
\* Number of generate passes over one schema.
MaxPasses == 2

-----------------------------------------------------------------------------
(* Program constants.                                                      *)

\* generator.go:281 and :290, `ver >= 9.5`, in tenths.
VersionGate == 95

Versions == {94, 95}

NoErr == "<nil>"
ErrFunctionName == "missing function name"
ErrTableName == "missing table name"
ErrNoColumns == "table has no columns"
ErrFkColumn == "foreign key constraint require at least one column"
ErrFkRefColumn == "foreign key constraint require at least one reference column"
ErrFkRefTable == "foreiqn key constraint missing reference table"
ErrUnknownType == "unknown constraint type"

\* The constraint types CountOf is asked for in generateCreateTable.
InlineCounted == {"PrimaryKey", "Check", "Unique", "ForeignKey", "Exclusion"}

NilTable == "<nil>"
NilSchema == "<nil>"

-----------------------------------------------------------------------------
(* The schema model (package pqt), as far as the generators read it.       *)

Cons(type, pcols, cols, ref, where) ==
    [Type |-> type, PrimaryColumns |-> pcols, Columns |-> cols,
     Table |-> ref, Where |-> where]

\* A nil *pqt.Constraint: an unused slot of a backing array, an unset
\* Relationship.OwnerForeignKey.
NilConstraint == Cons("<nil>", <<>>, <<>>, NilTable, "")

\* A slice of constraints: its backing array (Len(arr) is the capacity) and
\* its length.
SliceOf(s) == SubSeq(s.arr, 1, s.len)

\* Go's append: in place when the capacity allows, else into a fresh array of
\* twice the capacity. The result is a new slice header.
SliceAppend(s, x) ==
    IF s.len < Len(s.arr)
    THEN [arr |-> [s.arr EXCEPT ![s.len + 1] = x], len |-> s.len + 1]
    ELSE LET n == IF Len(s.arr) = 0 THEN 1 ELSE 2 * Len(s.arr)
         IN [arr |-> [i \in 1..n |-> IF i <= s.len THEN s.arr[i]
                                     ELSE IF i = s.len + 1 THEN x
                                     ELSE NilConstraint],
             len |-> s.len + 1]

\* Constraints.CountOf(types...)
CountOf(cs, types) == Cardinality({i \in 1..Len(cs) : cs[i].Type \in types})

-----------------------------------------------------------------------------
(* pqtsql.Generator: the rendering functions. Each takes the buffer and    *)
(* returns it with what the function wrote, together with the error.       *)

Wrote(buf, e) == [buf |-> buf, err |-> e]

\* generateCreateFunction. The argument list, return type, body and
\* behaviour keyword are part of the one statement and are not broken up.
generateCreateFunction(buf, f) ==
    IF f.Nil THEN Wrote(buf, NoErr)
    ELSE IF f.Name = "" THEN Wrote(buf, ErrFunctionName)
    ELSE Wrote(Append(buf, [k |-> "function", name |-> f.Name]), NoErr)

\* foreignKeyConstraintQuery without the check of the referenced table.
foreignKeyConstraintQueryNoTable(buf, c) ==
    IF Len(c.PrimaryColumns) = 0 THEN [buf |-> buf, err |-> ErrFkColumn]
    ELSE IF Len(c.Columns) = 0 THEN [buf |-> buf, err |-> ErrFkRefColumn]
    ELSE [buf |-> Append(buf, [k |-> "constraint", sql |-> "FOREIGN KEY", c |-> c]),
          err |-> NoErr]

\* foreignKeyConstraintQuery. OnDelete and OnUpdate clauses belong to the
\* same line and are not broken up.
foreignKeyConstraintQuery(buf, c) ==
    IF Len(c.PrimaryColumns) = 0 THEN Wrote(buf, ErrFkColumn)
    ELSE IF Len(c.Columns) = 0 THEN Wrote(buf, ErrFkRefColumn)
    ELSE IF c.Table = NilTable THEN Wrote(buf, ErrFkRefTable)
    ELSE Wrote(Append(buf, [k |-> "constraint", sql |-> "FOREIGN KEY", c |-> c]), NoErr)

\* generateConstraint: the switch on c.Type.
generateConstraint(buf, c) ==
    CASE c.Type = "Unique" ->
            Wrote(Append(buf, [k |-> "constraint", sql |-> "UNIQUE", c |-> c]), NoErr)
      [] c.Type = "PrimaryKey" ->
            Wrote(Append(buf, [k |-> "constraint", sql |-> "PRIMARY KEY", c |-> c]), NoErr)
      [] c.Type = "ForeignKey" -> foreignKeyConstraintQuery(buf, c)
      [] c.Type = "Check" ->
            Wrote(Append(buf, [k |-> "constraint", sql |-> "CHECK", c |-> c]), NoErr)
      [] c.Type = "Index" -> Wrote(buf, NoErr)
      [] c.Type = "UniqueIndex" -> Wrote(buf, NoErr)
      [] OTHER -> Wrote(buf, ErrUnknownType)

\* indexConstraintQuery with the gate `ver > 9.5`.
indexConstraintQueryStrict(buf, c, ver) ==
    Append(buf, [k |-> "index", unique |-> FALSE, guard |-> (ver > VersionGate),
                 c |-> c, where |-> ""])

\* indexConstraintQuery: c.Where is not read.
indexConstraintQuery(buf, c, ver) ==
    Append(buf, [k |-> "index", unique |-> FALSE, guard |-> (ver >= VersionGate),
                 c |-> c, where |-> ""])

\* uniqueIndexConstraintQuery
uniqueIndexConstraintQuery(buf, c, ver) ==
    Append(buf, [k |-> "index", unique |-> TRUE, guard |-> (ver >= VersionGate),
                 c |-> c, where |-> c.Where])

\* workingConstraints without the skip of single-column relationships.
RECURSIVE workingConstraintsNoSkip(_, _, _, _)
workingConstraintsNoSkip(rs, cs, own, alias) ==
    IF rs = <<>> THEN [constraints |-> cs, own |-> own]
    ELSE LET r == Head(rs) IN
         IF r.OwnerForeignKey = NilConstraint
         THEN workingConstraintsNoSkip(Tail(rs), cs, own, alias)
         ELSE LET inPlace == cs.len < Len(cs.arr)
                  next == SliceAppend(cs, r.OwnerForeignKey)
              IN workingConstraintsNoSkip(
                     Tail(rs), next,
                     IF alias /\ inPlace THEN [own EXCEPT !.arr = next.arr] ELSE own,
                     alias /\ inPlace)

\* workingConstraints appending to the table's own slice:
\* t.Constraints = append(t.Constraints, r.OwnerForeignKey).
RECURSIVE workingConstraintsWriteBack(_, _, _, _)
workingConstraintsWriteBack(rs, cs, own, alias) ==
    IF rs = <<>> THEN [constraints |-> cs, own |-> cs]
    ELSE LET r == Head(rs) IN
         IF Len(r.OwnerColumns) = 1 \/ r.OwnerForeignKey = NilConstraint
         THEN workingConstraintsWriteBack(Tail(rs), cs, own, alias)
         ELSE workingConstraintsWriteBack(Tail(rs), SliceAppend(cs, r.OwnerForeignKey),
                                          own, alias)

\* generateCreateTable, lines 137-146: the working constraint list of the
\* pass. `rs` are the owned relationships still to visit, `cs` the working
\* slice so far, `own` the table's own slice; `alias` tells whether cs still
\* shares the backing array of own, in which case an append in place writes
\* the table's array too.
RECURSIVE workingConstraints(_, _, _, _)
workingConstraints(rs, cs, own, alias) ==
    IF rs = <<>> THEN [constraints |-> cs, own |-> own]
    ELSE LET r == Head(rs) IN
         IF Len(r.OwnerColumns) = 1 \/ r.OwnerForeignKey = NilConstraint
         THEN workingConstraints(Tail(rs), cs, own, alias)
         ELSE LET inPlace == cs.len < Len(cs.arr)
                  next == SliceAppend(cs, r.OwnerForeignKey)
              IN workingConstraints(
                     Tail(rs), next,
                     IF alias /\ inPlace THEN [own EXCEPT !.arr = next.arr] ELSE own,
                     alias /\ inPlace)

\* generateCreateTable, lines 154-178: the column lines. `i` is the 1-based
\* index of the column about to be visited.
RECURSIVE columnLines(_, _, _, _)
columnLines(buf, cols, i, nbOfConstraints) ==
    IF i > Len(cols) THEN buf
    ELSE IF cols[i].IsDynamic THEN columnLines(buf, cols, i + 1, nbOfConstraints)
    ELSE columnLines(
             Append(buf, [k |-> "column", name |-> cols[i].Name,
                          comma |-> (i < Len(cols) \/ nbOfConstraints > 0)]),
             cols, i + 1, nbOfConstraints)

\* generateCreateTable, lines 184-199: the inline constraint lines. `cs` are
\* the constraints still to visit, `i` counts the lines written.
\* constraintLine is the rest of one iteration (lines 190-198) once
\* generateConstraint has returned r for the constraint c.
RECURSIVE constraintLines(_, _, _, _), constraintLine(_, _, _, _, _)
constraintLine(r, c, cs, i, nbOfConstraints) ==
    IF r.err # NoErr
    THEN Wrote(Append(r.buf, [k |-> "tab"]), r.err)
    ELSE constraintLines(
             [r.buf EXCEPT ![Len(r.buf)] =
                  [k |-> "constraint", sql |-> r.buf[Len(r.buf)].sql, c |-> c,
                   comma |-> (i < nbOfConstraints - 1)]],
             cs, i + 1, nbOfConstraints)

constraintLines(buf, cs, i, nbOfConstraints) ==
    IF cs = <<>> THEN Wrote(buf, NoErr)
    ELSE IF Head(cs).Type = "Index" \/ Head(cs).Type = "UniqueIndex"
    THEN constraintLines(buf, Tail(cs), i, nbOfConstraints)
    ELSE constraintLine(generateConstraint(buf, Head(cs)), Head(cs), Tail(cs),
                        i, nbOfConstraints)

\* generateCreateTable, lines 196-203: what it returns once the constraint
\* loop has returned r; `after` is the table as the pass leaves it in memory.
createTableReturn(r, after) ==
    IF r.err # NoErr THEN [buf |-> r.buf, err |-> r.err, t |-> after]
    ELSE [buf |-> Append(r.buf, [k |-> "close"]), err |-> NoErr, t |-> after]

\* generateCreateTable, lines 147-203: the lines of the block, given the
\* header written so far and the working constraint list wc.
createTableLines(head, t, wc) ==
    LET constraints == SliceOf(wc.constraints)
        nbOfConstraints == CountOf(constraints, InlineCounted)
        cols == columnLines(head, t.Columns, 1, nbOfConstraints)
        sep == IF nbOfConstraints > 0 THEN Append(cols, [k |-> "newline"]) ELSE cols
    IN createTableReturn(constraintLines(sep, constraints, 0, nbOfConstraints),
                         [t EXCEPT !.Constraints = wc.own])

\* generateCreateTable: the buffer, the error and the table as the pass
\* leaves it in memory.
generateCreateTable(buf, t) ==
    IF t.Name = "" THEN [buf |-> buf, err |-> ErrTableName, t |-> t]
    ELSE IF Len(t.Columns) = 0 THEN [buf |-> buf, err |-> ErrNoColumns, t |-> t]
    ELSE createTableLines(
             Append(buf, [k |-> "create table", name |-> t.Name,
                          schema |-> t.Schema, temporary |-> t.Temporary,
                          ifNotExists |-> t.IfNotExists]),
             t,
             workingConstraints(t.OwnedRelationships, t.Constraints, t.Constraints, TRUE))

\* generate, lines 57-64: the standalone index statements of a table.
RECURSIVE indexStatements(_, _, _)
indexStatements(buf, cs, ver) ==
    IF cs = <<>> THEN buf
    ELSE LET c == Head(cs) IN
         indexStatements(
             CASE c.Type = "Index" -> indexConstraintQuery(buf, c, ver)
               [] c.Type = "UniqueIndex" -> uniqueIndexConstraintQuery(buf, c, ver)
               [] OTHER -> buf,
             Tail(cs), ver)

\* generate, lines 48-52: the loop over s.Functions.
RECURSIVE generateFunctions(_, _)
generateFunctions(buf, fs) ==
    IF fs = <<>> THEN Wrote(buf, NoErr)
    ELSE LET r == generateCreateFunction(buf, Head(fs)) IN
         IF r.err # NoErr THEN r ELSE generateFunctions(r.buf, Tail(fs))

\* generate, lines 53-66: the loop over s.Tables, from table i on. `ts` is
\* the table list as the pass has left it so far. tableDone is the rest of
\* one iteration (lines 54-65) once generateCreateTable has returned r.
RECURSIVE generateTables(_, _, _, _), tableDone(_, _, _, _)
tableDone(r, ts, i, ver) ==
    IF r.err # NoErr
    THEN [buf |-> r.buf, err |-> r.err, tables |-> [ts EXCEPT ![i] = r.t]]
    ELSE generateTables(
             Append(indexStatements(r.buf, SliceOf(r.t.Constraints), ver),
                    [k |-> "blank"]),
             [ts EXCEPT ![i] = r.t], i + 1, ver)

generateTables(buf, ts, i, ver) ==
    IF i > Len(ts) THEN [buf |-> buf, err |-> NoErr, tables |-> ts]
    ELSE tableDone(generateCreateTable(buf, ts[i]), ts, i, ver)

\* generate, lines 53-68: what it returns once the tables loop has
\* returned tr.
generateReturn(s, tr) ==
    IF tr.err # NoErr
    THEN [code |-> <<>>, err |-> tr.err, schema |-> [s EXCEPT !.Tables = tr.tables]]
    ELSE [code |-> tr.buf, err |-> NoErr, schema |-> [s EXCEPT !.Tables = tr.tables]]

\* generate, lines 48-68: the rest of the pass once the functions loop has
\* returned fr.
generateLoops(s, fr, ver) ==
    IF fr.err # NoErr THEN [code |-> <<>>, err |-> fr.err, schema |-> s]
    ELSE generateReturn(s, generateTables(fr.buf, s.Tables, 1, ver))

\* generate rejecting a schema without a name.
generateNamedOnly(s, ver) ==
    IF s.Name = "" THEN [code |-> <<>>, err |-> "missing schema name", schema |-> s]
    ELSE generateLoops(
             s,
             generateFunctions(
                 <<[k |-> "banner"],
                   [k |-> "create schema", name |-> s.Name, ifNotExists |-> s.IfNotExists]>>,
                 s.Functions),
             ver)

\* generate: the buffer (nil on error), the error, and the schema as the
\* pass leaves it in memory.
generate(s, ver) ==
    generateLoops(
        s,
        generateFunctions(
            IF s.Name # ""
            THEN <<[k |-> "banner"],
                   [k |-> "create schema", name |-> s.Name, ifNotExists |-> s.IfNotExists]>>
            ELSE <<[k |-> "banner"]>>,
            s.Functions),
        ver)

-----------------------------------------------------------------------------
(* The two entry points of pqtsql.Generator.                               *)

\* Generate, lines 21-25: what it returns once generate has returned r.
GenerateReturn(r) ==
    /\ ret' = IF r.err # NoErr THEN <<>> ELSE r.code
    /\ err' = r.err
    /\ schema' = r.schema

\* Generate: the bytes of the buffer, or nil with the error.
Generate ==
    /\ passes < MaxPasses
    /\ GenerateReturn(generate(schema, gVersion))
    /\ passes' = passes + 1
    /\ UNCHANGED <<gVersion, w>>
    /\ UNCHANGED <<goVars, libVars>>

\* GenerateTo, lines 31-36: what it does once generate has returned r. The
\* writer takes every write.
GenerateToReturn(r) ==
    /\ w' = IF r.err # NoErr THEN w ELSE w \o r.code
    /\ err' = r.err
    /\ schema' = r.schema

\* GenerateTo: the buffer is written to the writer only when generate
\* returned no error.
GenerateTo ==
    /\ passes < MaxPasses
    /\ GenerateToReturn(generate(schema, gVersion))
    /\ passes' = passes + 1
    /\ UNCHANGED <<gVersion, ret>>
    /\ UNCHANGED <<goVars, libVars>>

-----------------------------------------------------------------------------
(* The schemas the generator is run on: every schema of at most MaxItems   *)
(* elements whose lists are at most MaxList long.                          *)

SchemaHeads ==
    {[Name |-> "", IfNotExists |-> FALSE],
     [Name |-> "s", IfNotExists |-> FALSE],
     [Name |-> "s", IfNotExists |-> TRUE]}

\* nil, a function without a name, two named functions.
FunctionKinds ==
    {[Nil |-> TRUE, Name |-> ""], [Nil |-> FALSE, Name |-> ""],
     [Nil |-> FALSE, Name |-> "f"], [Nil |-> FALSE, Name |-> "g"]}

TableNames == {"", "t", "u"}

ColName(i) == "c" \o ToString(i)

ColumnLists(n) ==
    {[i \in 1..n |-> [Name |-> ColName(i), IsDynamic |-> d[i]]] : d \in [1..n -> BOOLEAN]}

\* One constraint of every type, ForeignKey also with each of its three
\* defects, UniqueIndex also with a predicate, and one of a type outside
\* the enumeration.
ConstraintKinds ==
    {Cons("PrimaryKey", <<"c1">>, <<>>, NilTable, ""),
     Cons("Unique", <<"c1">>, <<>>, NilTable, ""),
     Cons("Check", <<"c1">>, <<>>, NilTable, ""),
     Cons("Exclusion", <<"c1">>, <<>>, NilTable, ""),
     Cons("ForeignKey", <<"c1">>, <<"id">>, "ref", ""),
     Cons("ForeignKey", <<>>, <<"id">>, "ref", ""),
     Cons("ForeignKey", <<"c1">>, <<>>, "ref", ""),
     Cons("ForeignKey", <<"c1">>, <<"id">>, NilTable, ""),
     Cons("Index", <<"c1">>, <<>>, NilTable, ""),
     Cons("UniqueIndex", <<"c1">>, <<>>, NilTable, ""),
     Cons("UniqueIndex", <<"c1">>, <<>>, NilTable, "p"),
     Cons("Bogus", <<"c1">>, <<>>, NilTable, "")}

\* An owned relationship over n owner columns, with or without the foreign
\* key built over those columns.
OwnerCols(n) == [i \in 1..n |-> ColName(i)]

RelKinds ==
    {[OwnerColumns |-> OwnerCols(n),
      OwnerForeignKey |-> IF fk THEN Cons("ForeignKey", OwnerCols(n), OwnerCols(n), "ref", "")
                          ELSE NilConstraint] :
        n \in 0..(MaxList + 1), fk \in BOOLEAN}

\* A slice of the constraints ks over a backing array with `spare` unused slots.
NewSlice(ks, spare) ==
    [arr |-> [i \in 1..(Len(ks) + spare) |-> IF i <= Len(ks) THEN ks[i] ELSE NilConstraint],
     len |-> Len(ks)]

\* The tables of exactly n elements: the table itself, its columns,
\* constraints, relationships and spare slots.
TablesOfSize(n) ==
    UNION {
        {[Name |-> nm, Schema |-> NilSchema, Temporary |-> FALSE, IfNotExists |-> FALSE,
          Columns |-> cs, Constraints |-> NewSlice(ks, q[4]), OwnedRelationships |-> rs] :
            nm \in TableNames, cs \in ColumnLists(q[1]),
            ks \in [1..q[2] -> ConstraintKinds], rs \in [1..q[3] -> RelKinds]} :
        q \in {x \in (0..MaxList) \X (0..MaxList) \X (0..MaxList) \X (0..MaxList) :
                 1 + x[1] + x[2] + x[3] + x[4] = n}}

TablesBySize == [n \in 1..MaxItems |-> TablesOfSize(n)]

\* The lists of k tables of n elements in all.
RECURSIVE TableLists(_, _)
TableLists(k, n) ==
    IF k = 0 THEN (IF n = 0 THEN {<<>>} ELSE {})
    ELSE UNION {
        {<<t>> \o ts : t \in TablesBySize[m], ts \in TableLists(k - 1, n - m)} :
        m \in 1..n}

SchemaShapes ==
    {x \in (0..MaxList) \X (0..MaxList) \X (0..MaxItems) : x[1] + x[3] <= MaxItems}

-----------------------------------------------------------------------------

\* The source generator before it is given a table.
NoTable ==
    [Name |-> "", Columns |-> <<>>, OwnedRelationships |-> <<>>,
     InversedRelationships |-> <<>>, ManyToManyRelationships |-> <<>>]

\* The generated criteria functions before any node exists.
CritIdle ==
    /\ heap = <<>>
    /\ calls = <<>>

\* The source generator before it is given a schema to print imports for.
ImpIdle ==
    /\ gImports = <<>>
    /\ impTables = <<>>
    /\ importBlock = <<>>

\* No iterator.
IterIdle ==
    /\ iter = [cols |-> [nil |-> TRUE, names |-> <<>>]]
    /\ rows = [lookups |-> 0, scans |-> 0, resolved |-> <<>>]
    /\ itRet = [call |-> "none"]

LibIdle == CritIdle /\ ImpIdle /\ IterIdle

GoIdle ==
    /\ tbl = NoTable
    /\ producer = [at |-> 0, state |-> "none"]
    /\ fields = [value |-> <<>>, closed |-> FALSE]
    /\ consumer = "idle"
    /\ prop = <<>>
    /\ printer = [out |-> <<>>, Err |-> NoErr]
    /\ goErr = "none"

Init ==
    /\ GoIdle
    /\ LibIdle
    /\ \E q \in SchemaShapes :
         \E h \in SchemaHeads, fs \in [1..q[1] -> FunctionKinds], ts \in TableLists(q[2], q[3]) :
            schema = [Name |-> h.Name, IfNotExists |-> h.IfNotExists,
                      Functions |-> fs, Tables |-> ts]
    /\ gVersion \in Versions
    /\ ret = <<>>
    /\ err = NoErr
    /\ w = <<>>
    /\ passes = 0

Next == Generate \/ GenerateTo

Spec == Init /\ [][Next]_vars

-----------------------------------------------------------------------------
(* Reading the emitted SQL.                                                *)

Item(k, name, c) == [k |-> k, name |-> name, c |-> c]

\* What a line of the buffer renders, punctuation, guard and predicate aside.
ItemOf(l) ==
    CASE l.k = "banner" -> Item("banner", "", NilConstraint)
      [] l.k = "create schema" -> Item("schema", l.name, NilConstraint)
      [] l.k = "function" -> Item("function", l.name, NilConstraint)
      [] l.k = "create table" -> Item("table", l.name, NilConstraint)
      [] l.k = "column" -> Item("column", l.name, NilConstraint)
      [] l.k = "constraint" -> Item("inline", "", l.c)
      [] l.k = "close" -> Item("end", "", NilConstraint)
      [] l.k = "index" -> Item("index", "", l.c)
      [] l.k = "blank" -> Item("blank", "", NilConstraint)
      [] OTHER -> Item(l.k, "", NilConstraint)

IsText(l) == l.k # "newline"

ItemsOf(out) ==
    LET lines == SelectSeq(out, IsText) IN [i \in 1..Len(lines) |-> ItemOf(lines[i])]

RECURSIVE Concat(_)
Concat(ss) == IF ss = <<>> THEN <<>> ELSE Head(ss) \o Concat(Tail(ss))

\* Whether x is one or more copies of e in a row.
RECURSIVE Repeats(_, _)
Repeats(x, e) ==
    /\ Len(x) >= Len(e)
    /\ SubSeq(x, 1, Len(e)) = e
    /\ (Len(x) = Len(e) \/ (Len(e) > 0 /\ Repeats(SubSeq(x, Len(e) + 1, Len(x)), e)))

IsStandalone(c) == c.Type \in {"Index", "UniqueIndex"}
IsInline(c) == ~IsStandalone(c)
IsStatic(col) == ~col.IsDynamic
IsFunction(f) == ~f.Nil

Declared(t) == SliceOf(t.Constraints)

\* A pass has run and the last one returned no error / an error.
Succeeded == passes >= 1 /\ err = NoErr
Failed == passes >= 1 /\ err # NoErr
NoOutput == ret = <<>> /\ w = <<>>

-----------------------------------------------------------------------------
(* C1: the order of the emitted SQL.                                       *)

HasManyOwnerColumns(r) == Len(r.OwnerColumns) > 1 /\ r.OwnerForeignKey # NilConstraint

ClaimedTable(t) ==
    LET cols == SelectSeq(t.Columns, IsStatic)
        inl == SelectSeq(Declared(t), IsInline)
        syn == SelectSeq(t.OwnedRelationships, HasManyOwnerColumns)
        idx == SelectSeq(Declared(t), IsStandalone)
    IN <<Item("table", t.Name, NilConstraint)>>
       \o [i \in 1..Len(cols) |-> Item("column", cols[i].Name, NilConstraint)]
       \o [i \in 1..Len(inl) |-> Item("inline", "", inl[i])]
       \o [i \in 1..Len(syn) |-> Item("inline", "", syn[i].OwnerForeignKey)]
       \o <<Item("end", "", NilConstraint)>>
       \o [i \in 1..Len(idx) |-> Item("index", "", idx[i])]
       \o <<Item("blank", "", NilConstraint)>>

ClaimedSql(s) ==
    LET fs == SelectSeq(s.Functions, IsFunction) IN
    <<Item("banner", "", NilConstraint)>>
    \o (IF s.Name # "" THEN <<Item("schema", s.Name, NilConstraint)>> ELSE <<>>)
    \o [i \in 1..Len(fs) |-> Item("function", fs[i].Name, NilConstraint)]
    \o Concat([i \in 1..Len(s.Tables) |-> ClaimedTable(s.Tables[i])])

\* C1: whenever generation succeeds, the emitted SQL is the banner, CREATE
\* SCHEMA only for a named schema, the function blocks in declaration order,
\* then table by table in declaration order the CREATE TABLE block (static
\* columns, declared inline constraints, foreign keys of the owned
\* relationships with more than one owner column), the table's index
\* statements and a blank line.
Th_C1_Sequence ==
    Succeeded =>
        /\ ret # <<>> => ItemsOf(ret) = ClaimedSql(schema)
        /\ w # <<>> => Repeats(ItemsOf(w), ClaimedSql(schema))

\* A table with a relationship over one column and one over several, both
\* carrying a foreign key, was generated into the returned bytes.
Wit_C1_Sequence ==
    /\ Succeeded /\ ret # <<>>
    /\ \E i \in 1..Len(schema.Tables) :
          LET rs == schema.Tables[i].OwnedRelationships IN
            /\ \E j \in 1..Len(rs) : HasManyOwnerColumns(rs[j])
            /\ \E j \in 1..Len(rs) :
                  Len(rs[j].OwnerColumns) = 1 /\ rs[j].OwnerForeignKey # NilConstraint

-----------------------------------------------------------------------------
(* C2: malformed tables and functions.                                     *)

KnownTypes ==
    {"PrimaryKey", "Unique", "ForeignKey", "Check", "Index", "UniqueIndex", "Exclusion"}

MalformedConstraint(c) ==
    \/ c.Type \notin KnownTypes
    \/ /\ c.Type = "ForeignKey"
       /\ (c.PrimaryColumns = <<>> \/ c.Columns = <<>> \/ c.Table = NilTable)

MalformedTable(t) ==
    \/ t.Name = ""
    \/ t.Columns = <<>>
    \/ \E i \in 1..Len(Declared(t)) : MalformedConstraint(Declared(t)[i])

MalformedFunction(f) == ~f.Nil /\ f.Name = ""

Malformed(s) ==
    \/ \E i \in 1..Len(s.Functions) : MalformedFunction(s.Functions[i])
    \/ \E i \in 1..Len(s.Tables) : MalformedTable(s.Tables[i])

\* C2: when a table or function of the schema is malformed, every pass
\* returns an error, Generate returns no bytes and GenerateTo writes nothing.
Th_C2_Malformed ==
    (passes >= 1 /\ Malformed(schema)) => (err # NoErr /\ NoOutput)

\* A pass failed on the second table after the first one rendered.
Wit_C2_Malformed ==
    /\ Failed
    /\ Len(schema.Tables) = 2
    /\ ~MalformedTable(schema.Tables[1])
    /\ generateCreateTable(<<>>, schema.Tables[1]).err = NoErr
    /\ MalformedTable(schema.Tables[2])
    /\ \E i \in 1..Len(schema.Functions) : IsFunction(schema.Functions[i])

-----------------------------------------------------------------------------
(* C3: a schema without a name.                                            *)

NotSchemaLine(l) == l.k # "create schema"

Nameless(s) ==
    \/ \E i \in 1..Len(s.Functions) : MalformedFunction(s.Functions[i])
    \/ \E i \in 1..Len(s.Tables) : s.Tables[i].Name = ""

-----------------------------------------------------------------------------
(* C4: the target version.                                                 *)

StripGuard(out) ==
    [i \in 1..Len(out) |->
        IF out[i].k = "index" THEN [out[i] EXCEPT !.guard = FALSE] ELSE out[i]]

\* C4: an index statement carries IF NOT EXISTS exactly when the version is
\* at least 9.5; the output at any other version differs in those guards
\* only; a unique index with a predicate carries its WHERE clause at every
\* version.
Th_C4_VersionGate ==
    (Succeeded /\ ret # <<>>) =>
        /\ \A i \in 1..Len(ret) :
              ret[i].k = "index" =>
                /\ ret[i].guard = (gVersion >= 95)
                /\ (ret[i].unique /\ ret[i].c.Where # "") => ret[i].where = ret[i].c.Where
        /\ \A v \in Versions :
              StripGuard(generate(schema, v).code) = StripGuard(ret)

\* At 9.5 an index and a unique index with a predicate were emitted.
Wit_C4_VersionGate ==
    /\ Succeeded /\ gVersion = 95
    /\ \E i \in 1..Len(ret) : ret[i].k = "index" /\ ~ret[i].unique /\ ret[i].guard
    /\ \E i \in 1..Len(ret) : ret[i].k = "index" /\ ret[i].unique /\ ret[i].where = "p"

-----------------------------------------------------------------------------
(* C5: the commas of a CREATE TABLE block.                                 *)

\* The next line of text after line i.
NextText(out, i) ==
    CHOOSE j \in (i + 1)..Len(out) :
        IsText(out[j]) /\ \A m \in (i + 1)..(j - 1) : ~IsText(out[m])

\* C5 as stated: a column line followed by a column line ends with a comma,
\* the last column line ends with a comma only if a constraint line follows,
\* a constraint line followed by a constraint line ends with a comma, and
\* the line before ');' does not.
Cl_C5_Commas ==
    (Succeeded /\ ret # <<>>) =>
        \A i \in 1..Len(ret) :
            ret[i].k \in {"column", "constraint"} =>
                LET nxt == ret[NextText(ret, i)] IN
                  /\ (ret[i].k = "column" /\ nxt.k = "column") => ret[i].comma
                  /\ (ret[i].k = "column" /\ nxt.k # "column" /\ ret[i].comma)
                        => nxt.k = "constraint"
                  /\ (ret[i].k = "constraint" /\ nxt.k = "constraint") => ret[i].comma
                  /\ nxt.k = "close" => ~ret[i].comma

-----------------------------------------------------------------------------
(* C6: inline and standalone constraints.                                  *)

IsPartitioned(it) == it.k \in {"table", "inline", "index"}

HasForeignKey(r) == Len(r.OwnerColumns) # 1 /\ r.OwnerForeignKey # NilConstraint

ClaimedPartition(t) ==
    LET inl == SelectSeq(Declared(t), IsInline)
        syn == SelectSeq(t.OwnedRelationships, HasForeignKey)
        idx == SelectSeq(Declared(t), IsStandalone)
    IN <<Item("table", t.Name, NilConstraint)>>
       \o [i \in 1..Len(inl) |-> Item("inline", "", inl[i])]
       \o [i \in 1..Len(syn) |-> Item("inline", "", syn[i].OwnerForeignKey)]
       \o [i \in 1..Len(idx) |-> Item("index", "", idx[i])]

\* Nothing is wrong with the schema: no claim of C2 applies and the foreign
\* keys of its relationships are complete.
WellFormed(s) ==
    /\ ~Malformed(s)
    /\ \A i \in 1..Len(s.Tables) :
          \A j \in 1..Len(s.Tables[i].OwnedRelationships) :
              LET r == s.Tables[i].OwnedRelationships[j] IN
                HasForeignKey(r) => ~MalformedConstraint(r.OwnerForeignKey)

\* C6 as stated: over the known constraint types the partition is total:
\* a well-formed schema is generated, every Index and UniqueIndex once as a
\* statement after its table, every constraint of another known type once
\* as a line inside it.
Cl_C6_Partition ==
    (passes >= 1 /\ WellFormed(schema)) =>
        /\ err = NoErr
        /\ ret # <<>> =>
              SelectSeq(ItemsOf(ret), IsPartitioned)
                = Concat([i \in 1..Len(schema.Tables) |-> ClaimedPartition(schema.Tables[i])])

-----------------------------------------------------------------------------
(* C7: the schema model after a pass.                                      *)

\* What the model holds for a reader: every table with the elements of its
\* Constraints slice, the spare slots of the backing array aside.
Visible(s) ==
    [s EXCEPT !.Tables =
        [i \in 1..Len(s.Tables) |->
            [s.Tables[i] EXCEPT !.Constraints = SliceOf(s.Tables[i].Constraints)]]]

HasSpareWritten(t) ==
    /\ t.Constraints.len < Len(t.Constraints.arr)
    /\ t.Constraints.arr[t.Constraints.len + 1] # NilConstraint

\* C7: no pass, successful or failed, changes a table's Constraints slice,
\* its columns or its relationship lists, and a later Generate returns the
\* bytes the earlier one returned.
Th_C7_ModelUnchanged ==
    [][/\ Visible(schema') = Visible(schema)
       /\ (ret # <<>> /\ ret' # ret) => FALSE]_vars

\* Two passes ran over a table whose backing array took a synthesized
\* foreign key in a spare slot.
Wit_C7_ModelUnchanged ==
    /\ passes = 2 /\ err = NoErr /\ ret # <<>>
    /\ \E i \in 1..Len(schema.Tables) : HasSpareWritten(schema.Tables[i])

-----------------------------------------------------------------------------
(* gogen.Generator: the entity of a table.                                 *)

\* The tables a relationship can point at: the table being generated and
\* one other table. A table reference is compared by identity.
Self == "author"
Other == "book"

\* t.Name of a referenced table.
TableName(ref) == ref

\* formatter.Public: the exported Go identifier of a name.
Public(n) ==
    CASE n = "author" -> "Author"
      [] n = "authors" -> "Authors"
      [] n = "book" -> "Book"
      [] n = "books" -> "Books"
      [] n = "writer" -> "Writer"
      [] n = "works" -> "Works"
      [] n = "c1" -> "C1"
      [] n = "c2" -> "C2"
      [] n = "c3" -> "C3"
      [] OTHER -> n

\* or(a, b): a unless it is empty.
or(a, b) == IF a # "" THEN a ELSE b

\* g.columnType(c, mode): the Go type of a column, "<nil>" when it has none.
columnType(c) == c.GoType

structField(name, type, readOnly) ==
    [Name |-> name, Type |-> type, ReadOnly |-> readOnly, Tags |-> ""]

\* What the goroutine sends for a column (lines 387-391): nothing or a field.
columnField(c) ==
    IF columnType(c) # "<nil>"
    THEN <<structField(Public(c.Name), columnType(c), c.IsDynamic)>>
    ELSE <<>>

\* ownedField giving a OneToMany relationship the singular name.
ownedFieldSingular(r) ==
    CASE r.Type \in {"OneToMany", "OneToOne", "ManyToOne"} ->
            <<structField(Public(or(r.InversedName, TableName(r.InversedTable))),
                          (IF r.Type = "OneToMany" THEN "[]*" ELSE "*")
                              \o Public(TableName(r.InversedTable)) \o "Entity",
                          FALSE)>>
      [] OTHER -> <<>>

\* What the goroutine sends for an owned relationship (lines 393-402).
ownedField(r) ==
    CASE r.Type = "OneToMany" ->
            <<structField(Public(or(r.InversedName, TableName(r.InversedTable) \o "s")),
                          "[]*" \o Public(TableName(r.InversedTable)) \o "Entity", FALSE)>>
      [] r.Type = "OneToOne" ->
            <<structField(Public(or(r.InversedName, TableName(r.InversedTable))),
                          "*" \o Public(TableName(r.InversedTable)) \o "Entity", FALSE)>>
      [] r.Type = "ManyToOne" ->
            <<structField(Public(or(r.InversedName, TableName(r.InversedTable))),
                          "*" \o Public(TableName(r.InversedTable)) \o "Entity", FALSE)>>
      [] OTHER -> <<>>

\* What the goroutine sends for an inversed relationship (lines 404-413).
inversedField(r) ==
    CASE r.Type = "OneToMany" ->
            <<structField(Public(or(r.OwnerName, TableName(r.OwnerTable))),
                          "*" \o Public(TableName(r.OwnerTable)) \o "Entity", FALSE)>>
      [] r.Type = "OneToOne" ->
            <<structField(Public(or(r.OwnerName, TableName(r.OwnerTable))),
                          "*" \o Public(TableName(r.OwnerTable)) \o "Entity", FALSE)>>
      [] r.Type = "ManyToOne" ->
            <<structField(Public(or(r.OwnerName, TableName(r.OwnerTable) \o "s")),
                          "[]*" \o Public(TableName(r.OwnerTable)) \o "Entity", FALSE)>>
      [] OTHER -> <<>>

\* What the goroutine sends for a many-to-many relationship of table t
\* (lines 415-426).
manyToManyField(r, t) ==
    IF r.Type # "ManyToMany" THEN <<>>
    ELSE CASE r.OwnerTable = t ->
                 <<structField(Public(or(r.InversedName, TableName(r.InversedTable) \o "s")),
                               "[]*" \o Public(TableName(r.InversedTable)) \o "Entity", FALSE)>>
           [] r.InversedTable = t ->
                 <<structField(Public(or(r.OwnerName, TableName(r.OwnerTable) \o "s")),
                               "[]*" \o Public(TableName(r.OwnerTable)) \o "Entity", FALSE)>>
           [] OTHER -> <<>>

\* Visits with the loop over the inversed relationships run before the
\* loop over the owned ones.
VisitsInversedFirst(t) ==
    [i \in 1..Len(t.Columns) |-> [loop |-> "columns", x |-> t.Columns[i]]]
    \o [i \in 1..Len(t.InversedRelationships) |->
            [loop |-> "inversed", x |-> t.InversedRelationships[i]]]
    \o [i \in 1..Len(t.OwnedRelationships) |->
            [loop |-> "owned", x |-> t.OwnedRelationships[i]]]
    \o [i \in 1..Len(t.ManyToManyRelationships) |->
            [loop |-> "manyToMany", x |-> t.ManyToManyRelationships[i]]]

\* The four loops of the goroutine in the order it runs them: each element
\* with the loop it is visited by.
Visits(t) ==
    [i \in 1..Len(t.Columns) |-> [loop |-> "columns", x |-> t.Columns[i]]]
    \o [i \in 1..Len(t.OwnedRelationships) |->
            [loop |-> "owned", x |-> t.OwnedRelationships[i]]]
    \o [i \in 1..Len(t.InversedRelationships) |->
            [loop |-> "inversed", x |-> t.InversedRelationships[i]]]
    \o [i \in 1..Len(t.ManyToManyRelationships) |->
            [loop |-> "manyToMany", x |-> t.ManyToManyRelationships[i]]]

\* What the goroutine sends at a visit: nothing or one field.
fieldOf(v, t) ==
    CASE v.loop = "columns" -> columnField(v.x)
      [] v.loop = "owned" -> ownedField(v.x)
      [] v.loop = "inversed" -> inversedField(v.x)
      [] v.loop = "manyToMany" -> manyToManyField(v.x, t.Name)

\* The visits from `from` on at which the goroutine sends.
Sends(t, from) == {i \in from..Len(Visits(t)) : fieldOf(Visits(t)[i], t) # <<>>}

Min(S) == CHOOSE x \in S : \A y \in S : x <= y

-----------------------------------------------------------------------------
(* Entity and the goroutine of entityPropertiesGenerator, one step per     *)
(* channel operation. The channel is unbuffered: a send stays pending      *)
(* until the range loop of Entity takes the value.                         *)

\* Entity, lines 58-62: the header is printed, the channel made and the
\* goroutine started.
Entity ==
    /\ consumer = "idle"
    /\ tbl # NoTable
    /\ printer' = [printer EXCEPT !.out = Append(@, [k |-> "type", name |-> Public(tbl.Name)])]
    /\ fields' = [value |-> <<>>, closed |-> FALSE]
    /\ producer' = [at |-> 1, state |-> "running"]
    /\ consumer' = "ranging"
    /\ UNCHANGED <<tbl, prop, goErr>>
    /\ UNCHANGED <<sqlVars, libVars>>

\* The goroutine runs its loops up to the next `out <- structField{...}`.
Send ==
    /\ producer.state = "running"
    /\ fields.value = <<>>
    /\ Sends(tbl, producer.at) # {}
    /\ LET i == Min(Sends(tbl, producer.at)) IN
         /\ producer' = [at |-> i, state |-> "sending"]
         /\ fields' = [fields EXCEPT !.value = fieldOf(Visits(tbl)[i], tbl)]
    /\ UNCHANGED <<tbl, consumer, prop, printer, goErr>>
    /\ UNCHANGED <<sqlVars, libVars>>

\* Entity, line 62: the range loop takes the pending value; the send
\* returns and the goroutine runs on.
Receive ==
    /\ consumer = "ranging"
    /\ fields.value # <<>>
    /\ prop' = fields.value
    /\ fields' = [fields EXCEPT !.value = <<>>]
    /\ producer' = [at |-> producer.at + 1, state |-> "running"]
    /\ consumer' = "printing"
    /\ UNCHANGED <<tbl, printer, goErr>>
    /\ UNCHANGED <<sqlVars, libVars>>

\* Entity, lines 63-78: the body of the range loop prints the field.
PrintProp ==
    /\ consumer = "printing"
    /\ printer' = [printer EXCEPT !.out =
                      Append(@, [k |-> "field", Name |-> Public(prop[1].Name),
                                 Type |-> prop[1].Type, ReadOnly |-> prop[1].ReadOnly,
                                 Tags |-> prop[1].Tags])]
    /\ prop' = <<>>
    /\ consumer' = "ranging"
    /\ UNCHANGED <<tbl, producer, fields, goErr>>
    /\ UNCHANGED <<sqlVars, libVars>>

\* The goroutine finds nothing more to send: close(out), line 428.
Close ==
    /\ producer.state = "running"
    /\ Sends(tbl, producer.at) = {}
    /\ fields' = [fields EXCEPT !.closed = TRUE]
    /\ producer' = [at |-> Len(Visits(tbl)) + 1, state |-> "exited"]
    /\ UNCHANGED <<tbl, consumer, prop, printer, goErr>>
    /\ UNCHANGED <<sqlVars, libVars>>

\* Entity, line 80: the range loop ends on the closed channel.
EndEntity ==
    /\ consumer = "ranging"
    /\ fields.closed /\ fields.value = <<>>
    /\ printer' = [printer EXCEPT !.out = Append(@, [k |-> "}"])]
    /\ consumer' = "done"
    /\ UNCHANGED <<tbl, producer, fields, prop, goErr>>
    /\ UNCHANGED <<sqlVars, libVars>>

\* pqtgogen's generate, line 621: return g.p.Err.
Return ==
    /\ consumer = "done"
    /\ goErr = "none"
    /\ goErr' = printer.Err
    /\ UNCHANGED <<tbl, producer, fields, consumer, prop, printer>>
    /\ UNCHANGED <<sqlVars, libVars>>

-----------------------------------------------------------------------------
(* The tables the entity is generated for: every table of at most          *)
(* MaxFields columns and relationships.                                    *)

MaxFields == 2

GoColumnKinds == {[GoType |-> ty, IsDynamic |-> d] : ty \in {"<nil>", "int64"}, d \in BOOLEAN}

RelationshipTypes == {"OneToOne", "OneToMany", "ManyToOne", "ManyToMany"}

\* Every relationship between the two tables, of the four types and of one
\* type outside the enumeration, with and without its override names.
GoRelKinds ==
    [Type : RelationshipTypes \cup {"Bogus"},
     OwnerTable : {Self, Other}, InversedTable : {Self, Other},
     OwnerName : {"", "writer"}, InversedName : {"", "works"}]

GoShapes ==
    {x \in (0..MaxFields) \X (0..MaxFields) \X (0..MaxFields) \X (0..MaxFields) :
        x[1] + x[2] + x[3] + x[4] <= MaxFields}

SqlIdle ==
    /\ schema = [Name |-> "", IfNotExists |-> FALSE, Functions |-> <<>>, Tables |-> <<>>]
    /\ gVersion = VersionGate
    /\ ret = <<>>
    /\ err = NoErr
    /\ w = <<>>
    /\ passes = 0

InitGo ==
    /\ SqlIdle
    /\ LibIdle
    /\ \E q \in GoShapes :
         \E cs \in [1..q[1] -> GoColumnKinds], os \in [1..q[2] -> GoRelKinds],
            is \in [1..q[3] -> GoRelKinds], ms \in [1..q[4] -> GoRelKinds] :
            tbl = [Name |-> Self,
                   Columns |-> [i \in 1..q[1] |->
                                   [Name |-> ColName(i), GoType |-> cs[i].GoType,
                                    IsDynamic |-> cs[i].IsDynamic]],
                   OwnedRelationships |-> os,
                   InversedRelationships |-> is,
                   ManyToManyRelationships |-> ms]
    /\ producer = [at |-> 0, state |-> "none"]
    /\ fields = [value |-> <<>>, closed |-> FALSE]
    /\ consumer = "idle"
    /\ prop = <<>>
    /\ printer = [out |-> <<>>, Err |-> NoErr]
    /\ goErr = "none"

NextGo == Entity \/ Send \/ Receive \/ PrintProp \/ Close \/ EndEntity \/ Return

SpecGo == InitGo /\ [][NextGo]_vars

-----------------------------------------------------------------------------
(* C8: the entity field of a relationship.                                 *)

OverrideOr(name, default) == IF name # "" THEN name ELSE default

ClaimedStructField(name, collection, other) ==
    [Name |-> Public(name),
     Type |-> (IF collection THEN "[]*" ELSE "*") \o Public(other) \o "Entity",
     ReadOnly |-> FALSE, Tags |-> ""]

\* The relationships visible from table t: those of its owned and inversed
\* lists of one of the three two-sided types, and the many-to-many ones it
\* takes part in.
HasField(v, t) ==
    \/ v.loop \in {"owned", "inversed"} /\ v.x.Type \in {"OneToMany", "OneToOne", "ManyToOne"}
    \/ /\ v.loop = "manyToMany" /\ v.x.Type = "ManyToMany"
       /\ (v.x.OwnerTable = t.Name \/ v.x.InversedTable = t.Name)

\* The field the claim gives the relationship of visit v of table t.
ClaimedField(v, t) ==
    LET r == v.x
        inv == TableName(r.InversedTable)
        own == TableName(r.OwnerTable)
    IN CASE v.loop = "owned" /\ r.Type = "OneToMany" ->
                ClaimedStructField(OverrideOr(r.InversedName, inv \o "s"), TRUE, inv)
         [] v.loop = "owned" /\ r.Type \in {"OneToOne", "ManyToOne"} ->
                ClaimedStructField(OverrideOr(r.InversedName, inv), FALSE, inv)
         [] v.loop = "inversed" /\ r.Type \in {"OneToMany", "OneToOne"} ->
                ClaimedStructField(OverrideOr(r.OwnerName, own), FALSE, own)
         [] v.loop = "inversed" /\ r.Type = "ManyToOne" ->
                ClaimedStructField(OverrideOr(r.OwnerName, own \o "s"), TRUE, own)
         [] v.loop = "manyToMany" /\ r.OwnerTable = t.Name ->
                ClaimedStructField(OverrideOr(r.InversedName, inv \o "s"), TRUE, inv)
         [] v.loop = "manyToMany" /\ r.OwnerTable # t.Name ->
                ClaimedStructField(OverrideOr(r.OwnerName, own \o "s"), TRUE, own)

IsFieldLine(l) == l.k = "field"

\* C8: every field the goroutine sends for a relationship has the name and
\* the cardinality the relationship's type and side give it, an override
\* name replacing the default; and the finished entity has one field for
\* every column with a Go type and every visible relationship.
Th_C8_RelationshipFields ==
    /\ (producer.state = "sending" /\ Visits(tbl)[producer.at].loop # "columns") =>
          /\ HasField(Visits(tbl)[producer.at], tbl)
          /\ fields.value = <<ClaimedField(Visits(tbl)[producer.at], tbl)>>
    /\ consumer = "done" =>
          Len(SelectSeq(printer.out, IsFieldLine))
            = Cardinality({i \in 1..Len(Visits(tbl)) :
                  LET v == Visits(tbl)[i] IN
                    IF v.loop = "columns" THEN columnType(v.x) # "<nil>"
                    ELSE HasField(v, tbl)})

\* The goroutine is sending the collection field of an inversed ManyToOne
\* relationship that has no override name.
Wit_C8_RelationshipFields ==
    /\ producer.state = "sending"
    /\ LET v == Visits(tbl)[producer.at] IN
         v.loop = "inversed" /\ v.x.Type = "ManyToOne" /\ v.x.OwnerName = ""
    /\ Len(printer.out) > 1

-----------------------------------------------------------------------------
(* C9: a relationship of an unknown type.                                  *)

HasUnknownRelationship(t) ==
    \E i \in 1..Len(Visits(t)) :
        Visits(t)[i].loop # "columns" /\ Visits(t)[i].x.Type \notin RelationshipTypes

\* C9 as stated: generation for a table holding a relationship of none of
\* the four types returns an error.
Cl_C9_UnknownRelationshipFails ==
    (goErr # "none" /\ HasUnknownRelationship(tbl)) => goErr # NoErr

-----------------------------------------------------------------------------
(* C10: the field names of an entity.                                      *)

\* C10 as stated: an entity that is emitted without an error has no two
\* fields of the same name.
Cl_C10_UniqueFieldNames ==
    goErr = NoErr =>
        LET fs == SelectSeq(printer.out, IsFieldLine) IN
          \A i, j \in 1..Len(fs) : i # j => fs[i].Name # fs[j].Name

-----------------------------------------------------------------------------
(* C11: a many-to-many relationship of a table with itself.                *)

\* A many-to-many relationship whose two sides are both table t and which
\* names neither side.
IsUnnamedSelfReference(r, t) ==
    /\ r.Type = "ManyToMany"
    /\ r.OwnerTable = t.Name /\ r.InversedTable = t.Name
    /\ r.OwnerName = "" /\ r.InversedName = ""

\* C11 as stated: generation for a table holding, in its many-to-many list,
\* a relationship of the table with itself that names neither side returns
\* an error.
Cl_C11_SelfReferenceFails ==
    (/\ goErr # "none"
     /\ \E i \in 1..Len(tbl.ManyToManyRelationships) :
            IsUnnamedSelfReference(tbl.ManyToManyRelationships[i], tbl))
        => goErr # NoErr

-----------------------------------------------------------------------------
(* C13: the field sequence over the channel.                               *)

\* The goroutine and Entity are each scheduled as long as they can run.
ProducerStep == Send \/ Close
ConsumerStep == Entity \/ Receive \/ PrintProp \/ EndEntity \/ Return

SpecGoLive == SpecGo /\ WF_vars(ProducerStep) /\ WF_vars(ConsumerStep)

\* The list an eager builder makes: the fields of the columns, of the owned,
\* of the inversed and of the many-to-many relationships, each list in
\* declared order.
RECURSIVE EagerColumns(_)
EagerColumns(cs) ==
    IF cs = <<>> THEN <<>> ELSE columnField(Head(cs)) \o EagerColumns(Tail(cs))

RECURSIVE EagerOwned(_)
EagerOwned(rs) ==
    IF rs = <<>> THEN <<>> ELSE ownedField(Head(rs)) \o EagerOwned(Tail(rs))

RECURSIVE EagerInversed(_)
EagerInversed(rs) ==
    IF rs = <<>> THEN <<>> ELSE inversedField(Head(rs)) \o EagerInversed(Tail(rs))

RECURSIVE EagerManyToMany(_, _)
EagerManyToMany(rs, t) ==
    IF rs = <<>> THEN <<>>
    ELSE manyToManyField(Head(rs), t.Name) \o EagerManyToMany(Tail(rs), t)

EagerFields(t) ==
    EagerColumns(t.Columns) \o EagerOwned(t.OwnedRelationships)
        \o EagerInversed(t.InversedRelationships)
        \o EagerManyToMany(t.ManyToManyRelationships, t)

\* The line Entity prints for a field.
PrintedLine(f) ==
    [k |-> "field", Name |-> Public(f.Name), Type |-> f.Type,
     ReadOnly |-> f.ReadOnly, Tags |-> f.Tags]

LinesOf(fs) == [i \in 1..Len(fs) |-> PrintedLine(fs[i])]

\* The fields that have left the goroutine so far, as Entity prints them:
\* those printed, the one the range loop holds, the one pending on the
\* channel.
Produced == SelectSeq(printer.out, IsFieldLine) \o LinesOf(prop) \o LinesOf(fields.value)

IsPrefix(a, b) == Len(a) <= Len(b) /\ SubSeq(b, 1, Len(a)) = a

EntityFinished == consumer = "done" /\ producer.state = "exited"

\* At every point of every interleaving the fields produced are the first
\* ones of the eager list; the channel is closed only by the goroutine's
\* exit, after every field has been taken; Entity ends only on the closed
\* channel with the whole list printed.
InOrder ==
    /\ consumer # "idle" => IsPrefix(Produced, LinesOf(EagerFields(tbl)))
    /\ fields.closed <=> producer.state = "exited"
    /\ fields.closed =>
          /\ fields.value = <<>>
          /\ SelectSeq(printer.out, IsFieldLine) \o LinesOf(prop) = LinesOf(EagerFields(tbl))
    /\ consumer = "done" =>
          /\ fields.closed /\ prop = <<>>
          /\ SelectSeq(printer.out, IsFieldLine) = LinesOf(EagerFields(tbl))

\* C13: under every interleaving of the goroutine and Entity the fields
\* arrive exactly as the eager list has them, nothing lost, duplicated or
\* reordered; the channel is closed once, after the last field; and every
\* run ends with the range loop of Entity finished and the goroutine exited.
Th_C13_ChannelOrder ==
    /\ []InOrder
    /\ [][fields.closed => fields'.closed /\ producer' = producer]_vars
    /\ <>EntityFinished

\* The goroutine has run ahead: it has closed the channel and exited while
\* Entity still holds the second of two relationship fields.
Wit_C13_ChannelOrder ==
    /\ fields.closed /\ consumer = "printing"
    /\ Len(SelectSeq(printer.out, IsFieldLine)) = 1
    /\ tbl.OwnedRelationships # <<>> /\ tbl.InversedRelationships # <<>>

-----------------------------------------------------------------------------
(* The generated criteria functions (Generator.Criteria, Generator.Operand): *)
(* <T>Operand, <T>Or and <T>And over <T>Criteria nodes. A node is addressed  *)
(* by its index in the heap; Nil is the nil pointer.                         *)

Nil == 0

MaxLeaves == 3
MaxOperands == 3
MaxCalls == 2

\* &Criteria{operator: operator, child: child}; every other field is zero.
NewCriteria(operator, child) ==
    [operator |-> operator, child |-> child, sibling |-> Nil, parent |-> Nil]

\* Operand, lines 114-119: the loop over the operands, from the i-th on,
\* one assignment after the other.
RECURSIVE linkOperands(_, _, _, _)
linkOperands(h, operands, i, parent) ==
    IF i > Len(operands) THEN h
    ELSE linkOperands(
             [(IF i < Len(operands)
               THEN [h EXCEPT ![operands[i]].sibling = operands[i + 1]]
               ELSE h) EXCEPT ![operands[i]].parent = parent],
             operands, i + 1, parent)

\* Operand, lines 104-121: the heap after the call and the node returned.
\* The new node gets the next free address.
Operand(h, operator, operands) ==
    IF Len(operands) = 0
    THEN [heap |-> Append(h, NewCriteria(operator, Nil)), ret |-> Len(h) + 1]
    ELSE [heap |-> linkOperands(Append(h, NewCriteria(operator, operands[1])),
                                operands, 1, Len(h) + 1),
          ret |-> Len(h) + 1]

\* The operand lists a caller can pass: any nodes that exist, in any order,
\* repeated or not.
OperandLists(h) == UNION {[1..n -> 1..Len(h)] : n \in 0..MaxOperands}

Operators == {"AND", "OR", "XOR"}

\* A call returns: the heap is as the call left it, the call is logged.
Called(r, operator, operands) ==
    /\ heap' = r.heap
    /\ calls' = Append(calls, [operator |-> operator, operands |-> operands, ret |-> r.ret])
    /\ UNCHANGED <<sqlVars, goVars, impVars, iterVars>>

OperandCall ==
    /\ Len(calls) < MaxCalls
    /\ \E operator \in Operators, operands \in OperandLists(heap) :
           Called(Operand(heap, operator, operands), operator, operands)

\* Or, lines 125-127
Or ==
    /\ Len(calls) < MaxCalls
    /\ \E operands \in OperandLists(heap) :
           Called(Operand(heap, "OR", operands), "OR", operands)

\* And, lines 130-132
And ==
    /\ Len(calls) < MaxCalls
    /\ \E operands \in OperandLists(heap) :
           Called(Operand(heap, "AND", operands), "AND", operands)

\* The pool: leaf criteria nodes, no pointer set.
InitCriteria ==
    /\ SqlIdle /\ GoIdle /\ ImpIdle /\ IterIdle
    /\ \E n \in 1..MaxLeaves : heap = [i \in 1..n |-> NewCriteria("", Nil)]
    /\ calls = <<>>

NextCriteria == OperandCall \/ Or \/ And

SpecCriteria == InitCriteria /\ [][NextCriteria]_vars

-----------------------------------------------------------------------------
(* C12: what one Operand call builds.                                      *)

IsDistinct(xs) == \A i, j \in 1..Len(xs) : i # j => xs[i] # xs[j]

LastCall == calls[Len(calls)]

\* C12 as stated: after a call the node returned carries the operator; with
\* no operand it has no pointer set; with operands its child is the first,
\* every operand's sibling is the next one, the last operand's sibling is
\* unset and every operand's parent is the node returned.
Cl_C12_OperandLinks ==
    calls # <<>> =>
        LET c == LastCall
            n == Len(c.operands)
            new == heap[c.ret]
        IN /\ new.operator = c.operator
           /\ n = 0 => new.child = Nil /\ new.sibling = Nil /\ new.parent = Nil
           /\ n >= 1 =>
                /\ new.child = c.operands[1]
                /\ \A i \in 1..(n - 1) : heap[c.operands[i]].sibling = c.operands[i + 1]
                /\ heap[c.operands[n]].sibling = Nil
                /\ \A i \in 1..n : heap[c.operands[i]].parent = c.ret

\* What every call does: it returns a node that did not exist, carrying the
\* operator; with no operand it has no pointer set and no other node
\* changes; with pairwise distinct operands its child is the first, every
\* operand's sibling is the next one, the last operand's sibling is what it
\* was before the call, and every operand's parent is the node returned.
OperandLinksWhenDistinct ==
    [][Len(calls') > Len(calls) =>
         LET c == calls'[Len(calls')]
             n == Len(c.operands)
             new == heap'[c.ret]
         IN /\ c.ret \notin DOMAIN heap
            /\ new.operator = c.operator
            /\ new.sibling = Nil /\ new.parent = Nil
            /\ n = 0 => new.child = Nil /\ \A a \in DOMAIN heap : heap'[a] = heap[a]
            /\ (n >= 1 /\ IsDistinct(c.operands)) =>
                 /\ new.child = c.operands[1]
                 /\ \A i \in 1..(n - 1) : heap'[c.operands[i]].sibling = c.operands[i + 1]
                 /\ heap'[c.operands[n]].sibling = heap[c.operands[n]].sibling
                 /\ \A i \in 1..n : heap'[c.operands[i]].parent = c.ret]_vars

\* An AND over three distinct nodes has returned, the last of which was
\* already linked to a sibling by the call before.
ThreeDistinctOperands ==
    /\ Len(calls) = 2
    /\ LastCall.operator = "AND"
    /\ Len(LastCall.operands) = 3 /\ IsDistinct(LastCall.operands)
    /\ heap[LastCall.operands[3]].sibling # Nil

-----------------------------------------------------------------------------
(* C16: the child/sibling structure after several calls.                   *)

\* The nodes met from node a on following sibling pointers, at most `fuel`
\* of them: a walk that has not ended after fuel nodes is cut off.
RECURSIVE Siblings(_, _)
Siblings(a, fuel) ==
    IF a = Nil \/ fuel = 0 THEN <<>>
    ELSE <<a>> \o Siblings(heap[a].sibling, fuel - 1)

\* The walk over the operands of the combinator of call c ends, and it met
\* exactly the operands the call was given, in order, each with the
\* combinator as its parent.
IsTreeOf(c) ==
    LET met == Siblings(heap[c.ret].child, Len(heap) + 1)
    IN /\ met = c.operands
       /\ \A i \in 1..Len(met) : heap[met[i]].parent = c.ret

\* C16 as stated: whatever calls were made, reusing nodes or not, every
\* combinator's walk ends after exactly its operands, in order, and each of
\* them has the combinator as its parent.
Cl_C16_AlwaysTree ==
    \A k \in 1..Len(calls) : IsTreeOf(calls[k])

\* Call k passed each of its operands once, and no other call passed any
\* of them.
IsUnshared(k) ==
    /\ IsDistinct(calls[k].operands)
    /\ \A j \in 1..Len(calls) : j # k =>
          \A i \in 1..Len(calls[k].operands), l \in 1..Len(calls[j].operands) :
              calls[k].operands[i] # calls[j].operands[l]

\* What does hold after any sequence of calls: every combinator whose
\* operands were passed once in its call and in no other call has a walk
\* that ends after exactly its operands, in order, each with the combinator
\* as its parent.
TreeWhenUnshared ==
    \A k \in 1..Len(calls) : IsUnshared(k) => IsTreeOf(calls[k])

\* Two calls, the second over the combinator of the first and a leaf: a
\* tree of depth two, no node shared.
NestedUnshared ==
    /\ Len(calls) = 2
    /\ IsUnshared(1) /\ IsUnshared(2)
    /\ Len(calls[1].operands) = 2
    /\ Len(calls[2].operands) = 2 /\ calls[2].operands[1] = calls[1].ret

-----------------------------------------------------------------------------
(* The import block: gogen.Generator.Imports as pqtgogen's generate calls it. *)

MaxImports == 2
MaxColumns == 2

Baseline == "github.com/m4rw3r/uuid"

\* appendIfNotEmpty, lines 32-37
appendIfNotEmpty(slice, elem) == IF elem # "" THEN Append(slice, elem) ELSE slice

\* Imports, lines 39-45: the package paths of one column, a custom type
\* giving one per mode.
columnImports(imports, c) ==
    IF c.Custom
    THEN appendIfNotEmpty(
             appendIfNotEmpty(appendIfNotEmpty(imports, c.Mandatory), c.Optional),
             c.Criteria)
    ELSE imports

RECURSIVE columnsImports(_, _)
columnsImports(imports, cs) ==
    IF cs = <<>> THEN imports
    ELSE columnsImports(columnImports(imports, Head(cs)), Tail(cs))

\* Imports, lines 38-46: the loop over s.Tables.
RECURSIVE tablesImports(_, _)
tablesImports(imports, ts) ==
    IF ts = <<>> THEN imports
    ELSE tablesImports(columnsImports(imports, Head(ts)), Tail(ts))

\* gogen.Generator.Imports(s, fixed...): the paths it prints, in order.
Imports(ts, fixed) == tablesImports(<<Baseline>> \o fixed, ts)

\* pqtgogen's generate, line 520: g.g.Imports(s, "github.com/m4rw3r/uuid").
GenerateImports ==
    /\ importBlock = <<>>
    /\ importBlock' = Imports(impTables, <<Baseline>>)
    /\ UNCHANGED <<gImports, impTables>>
    /\ UNCHANGED <<sqlVars, goVars, critVars, iterVars>>

ImportPaths == {"fmt", "time"}

\* The types of a column: not a custom type, or a custom type with a
\* package path, possibly empty, for each of its three modes.
ColumnTypeKinds ==
    {[Custom |-> FALSE, Mandatory |-> "", Optional |-> "", Criteria |-> ""]}
    \cup [Custom : {TRUE}, Mandatory : {"", "time"}, Optional : {"", "net"},
          Criteria : {"", "time"}]

ColumnCounts ==
    {x \in (0..MaxColumns) \X (0..MaxColumns) : x[1] + x[2] <= MaxColumns}

InitImports ==
    /\ SqlIdle /\ GoIdle /\ CritIdle /\ IterIdle
    /\ \E n \in 0..MaxImports : gImports \in [1..n -> ImportPaths]
    /\ \E q \in ColumnCounts :
         \E a \in [1..q[1] -> ColumnTypeKinds], b \in [1..q[2] -> ColumnTypeKinds] :
            impTables = <<a, b>>
    /\ importBlock = <<>>

NextImports == GenerateImports

SpecImports == InitImports /\ [][NextImports]_vars

-----------------------------------------------------------------------------
(* C14: the Imports field of the source generator.                         *)

Printed(path) == \E i \in 1..Len(importBlock) : importBlock[i] = path

CustomPaths ==
    {p \in {"time", "net"} :
        \E t \in 1..Len(impTables) : \E i \in 1..Len(impTables[t]) :
            /\ impTables[t][i].Custom
            /\ p \in {impTables[t][i].Mandatory, impTables[t][i].Optional,
                      impTables[t][i].Criteria}}

\* C14 as stated: the import block holds the baseline import, the package
\* paths of the custom column types and every path of the Imports field.
Cl_C14_ImportsFieldPrinted ==
    importBlock # <<>> =>
        /\ Printed(Baseline)
        /\ \A p \in CustomPaths : Printed(p)
        /\ \A i \in 1..Len(gImports) : Printed(gImports[i])

-----------------------------------------------------------------------------
(* The generated iterator (Generator.Iterator): Columns and the typed       *)
(* next-entity method over a Rows value. What Rows answers is not the       *)
(* iterator's to decide: every answer of its interface is possible.         *)

MaxIterCalls == 4

\* A []string: the nil slice, or a slice of names (which may be empty).
NilCols == [nil |-> TRUE, names |-> <<>>]
Slice(names) == [nil |-> FALSE, names |-> names]
ErrColumns == "rows: columns failed"
ErrProps == "entity: unknown column"
ErrScan == "rows: scan failed"

\* What rows.Columns() can return: an error, or a list, which may be the
\* nil slice, an empty slice or a slice of names.
ColumnsAnswers ==
    {[cols |-> NilCols, err |-> ErrColumns]}
    \cup {[cols |-> l, err |-> NoErr] : l \in {NilCols, Slice(<<>>), Slice(<<"id">>), Slice(<<"id", "name">>)}}

\* Columns, lines 301-310, on the iterator it with the answer rows.Columns()
\* gives if asked: the iterator after the call, what the call returns, and
\* whether rows was asked ("none", "ok" or "failed").
Columns(it, answer) ==
    IF it.cols = NilCols
    THEN IF answer.err # NoErr
         THEN [iter |-> it, cols |-> NilCols, err |-> answer.err, lookup |-> "failed"]
         ELSE [iter |-> [it EXCEPT !.cols = answer.cols], cols |-> answer.cols,
               err |-> NoErr, lookup |-> "ok"]
    ELSE [iter |-> it, cols |-> it.cols, err |-> NoErr, lookup |-> "none"]

\* rows after a call that did or did not ask it for the columns and did or
\* did not scan a row. `resolved` keeps the first list it answered.
Asked(r, c, scanned) ==
    [lookups |-> r.lookups + (IF c.lookup = "none" THEN 0 ELSE 1),
     scans |-> r.scans + (IF scanned THEN 1 ELSE 0),
     resolved |-> IF c.lookup = "ok" /\ r.resolved = <<>> THEN <<c.cols>> ELSE r.resolved]

\* The number of calls made on the iterator is kept with what the last
\* one returned.
CallsMade == IF itRet.call = "none" THEN 0 ELSE itRet.n

\* A call of Columns.
ColumnsCall ==
    /\ CallsMade < MaxIterCalls
    /\ \E answer \in ColumnsAnswers :
         LET c == Columns(iter, answer) IN
           /\ iter' = c.iter
           /\ rows' = Asked(rows, c, FALSE)
           /\ itRet' = [call |-> "Columns", n |-> CallsMade + 1, cols |-> c.cols,
                        err |-> c.err, lookup |-> c.lookup, scanned |-> FALSE]
    /\ UNCHANGED <<sqlVars, goVars, critVars, impVars>>

\* The typed next-entity method, lines 318-351 (Ent, lines 314-316, calls
\* it): Columns, then the entity's scan targets, then one rows.Scan.
Ent ==
    /\ CallsMade < MaxIterCalls
    /\ \E answer \in ColumnsAnswers, propsErr \in {NoErr, ErrProps},
          scanErr \in {NoErr, ErrScan} :
         LET c == Columns(iter, answer)
             scanned == c.err = NoErr /\ propsErr = NoErr
             e == IF c.err # NoErr THEN c.err
                  ELSE IF propsErr # NoErr THEN propsErr ELSE scanErr
         IN /\ iter' = c.iter
            /\ rows' = Asked(rows, c, scanned)
            /\ itRet' = [call |-> "Ent", n |-> CallsMade + 1, cols |-> c.cols,
                         err |-> e, lookup |-> c.lookup, scanned |-> scanned]
    /\ UNCHANGED <<sqlVars, goVars, critVars, impVars>>

InitIterator ==
    /\ SqlIdle /\ GoIdle /\ CritIdle /\ ImpIdle
    /\ IterIdle

NextIterator == ColumnsCall \/ Ent

SpecIterator == InitIterator /\ [][NextIterator]_vars

-----------------------------------------------------------------------------
(* C15: the column list is resolved once.                                  *)

\* C15 as stated: once a call has had rows answer its column list, no later
\* call asks rows again and every later Columns returns that list; a call
\* that rows answers with an error returns the error, leaves the cache
\* unset and scans no row.
Cl_C15_ResolvedOnce ==
    [][itRet' # itRet =>
         /\ rows.resolved # <<>> =>
              /\ rows'.lookups = rows.lookups
              /\ itRet'.call = "Columns" =>
                    itRet'.err = NoErr /\ itRet'.cols = rows.resolved[1]
         /\ itRet'.lookup = "failed" =>
              /\ itRet'.err = ErrColumns
              /\ iter'.cols = NilCols
              /\ rows'.scans = rows.scans]_vars

====
